---- MODULE Spec2Model ----
(***************************************************************************)
(* BAI2 statement pipeline: mapping resolution, row transformation,        *)
(* validation, field encryption and table loading.                         *)
(*                                                                         *)
(* Python values are tagged records, so that None, "", 0 and a missing     *)
(* dictionary key stay distinct: None, Str(s), Num(n), Date(d), Absent (no *)
(* such key) and B64(key, text), the base64 text of a KMS ciphertext.      *)
(***************************************************************************)
EXTENDS Integers, Sequences, FiniteSets, TLC

\* ------------------------------------------------------------ bounds
MaxRecords == 4
MaxPipelineRecords == 5
MaxBanks == 2

\* ------------------------------------------------------------ values
None == [t |-> "none"]
Absent == [t |-> "absent"]
Str(s) == [t |-> "str", v |-> s]
Num(n) == [t |-> "int", v |-> n]
Date(d) == [t |-> "date", v |-> d]
B64(key, text) == [t |-> "b64", key |-> key, v |-> text]

\* Python truthiness of a value: None, "" and 0 are falsy.
Truthy(v) == v \notin {None, Absent, Str(""), Num(0)}

\* x or y
PyOr(x, y) == IF Truthy(x) THEN x ELSE y

\* date.isoformat(): the ISO text of a date
IsoFormat(d) ==
    CASE d = Date(15) -> Str("2024-01-15")
      [] d = Date(16) -> Str("2024-01-16")

\* str(v): the text of a value
PyStr(v) ==
    CASE v.t = "str" -> v.v
      [] v = Num(-5) -> "-5"
      [] v = Num(0) -> "0"
      [] v = Num(5) -> "5"
      [] v = Num(100) -> "100"
      [] v = None -> "None"

\* getattr(obj, name, default) on an entity held as a record
GetAttr(obj, name, default) == IF name \in DOMAIN obj THEN obj[name] ELSE default

\* dict.get(key): None for a missing key
RowGet(row, f) == IF row[f] = Absent THEN None ELSE row[f]

\* ------------------------------------------------------------ settings
BALANCE_TABLE_ID == "balance"
TRANSACTIONS_TABLE_ID == "transactions"

Columns == {"organisation_biz_id", "division_biz_id", "account_number", "customer_id",
            "balance_date", "currency", "bsb", "financial_institute", "_target_table",
            "currency_code", "closing_balance", "transaction_amount", "description",
            "debit_credit_indicator", "transaction_posting_date", "transaction_value_date"}

EmptyRow == [c \in Columns |-> Absent]

\* row.update({...}) / row[k] = v
Put(row, k, v) == [row EXCEPT ![k] = v]

\* ------------------------------------------------------------ mapping rules
Rule(code, field, column, table) ==
    [bai_code |-> code, bai_field |-> field, bq_column |-> column, table |-> table]

RBalance == Rule("015", "amount", "closing_balance", "balance")
RAmount == Rule("475", "amount", "transaction_amount", "transactions")
RText == Rule("175", "text", "description", "transactions")
RText475 == Rule("475", "text", "description", "transactions")
RUnknownField == Rule("175", "bank_reference", "description", "transactions")

\* The rule lists a mapping configuration may declare.
RuleLists == { <<>>, <<RBalance>>, <<RAmount>>, <<RBalance, RAmount, RText>>,
               <<RAmount, RText475>>, <<RText475, RBalance, RAmount>>,
               <<RBalance, RUnknownField>> }

\* {m["bai_code"]: m for m in mappings}: a dict keeps the position of a key's first
\* insertion and the value of its last one.
RECURSIVE DictPut(_, _, _)
DictPut(d, rule, i) ==
    IF i > Len(d) THEN Append(d, rule)
    ELSE IF d[i].bai_code = rule.bai_code THEN [d EXCEPT ![i] = rule]
    ELSE DictPut(d, rule, i + 1)

RECURSIVE BuildCodeMap(_, _)
BuildCodeMap(mappings, d) ==
    IF mappings = <<>> THEN d
    ELSE BuildCodeMap(Tail(mappings), DictPut(d, Head(mappings), 1))

CodeMap(mappings) == BuildCodeMap(mappings, <<>>)

\* code in code_map
InCodeMap(cm, code) == \E i \in 1..Len(cm) : cm[i].bai_code = code

\* code_map[code]
CodeMapAt(cm, code) == cm[CHOOSE i \in 1..Len(cm) : cm[i].bai_code = code]

\* next((m for m in config.get("mappings", []) if m.get("bank_id") == bank_id), None)
RECURSIVE FirstBank(_, _)
FirstBank(banks, bank) ==
    IF banks = <<>> THEN None
    ELSE IF Head(banks).bank_id = bank THEN Head(banks)
    ELSE FirstBank(Tail(banks), bank)

\* Variant: an empty own rule list is replaced by the default list.
SelectMappingsOrDefault(cfg, bank) ==
    LET bank_config == FirstBank(GetAttr(cfg, "mappings", <<>>), bank)
        own == IF bank_config # None THEN GetAttr(bank_config, "mappings", <<>>) ELSE <<>>
    IN  IF own # <<>> THEN own ELSE GetAttr(cfg, "bank_id_default_typecodes", <<>>)

\* bank_config.get("mappings", []) if bank_config else config.get("bank_id_default_typecodes", [])
SelectMappings(cfg, bank) ==
    LET bank_config == FirstBank(GetAttr(cfg, "mappings", <<>>), bank)
    IN  IF bank_config # None
        THEN GetAttr(bank_config, "mappings", <<>>)
        ELSE GetAttr(cfg, "bank_id_default_typecodes", <<>>)

\* ------------------------------------------------------------ schemas
Col(name, required, sensitive) == [name |-> name, required |-> required, sensitive |-> sensitive]
ColDefault(name, required, sensitive, dv) ==
    [name |-> name, required |-> required, sensitive |-> sensitive, default_value |-> dv]

\* The schema sections a configuration may declare.
CommonSchema == << Col("organisation_biz_id", TRUE, FALSE),
                   Col("account_number", TRUE, TRUE) >>

BalanceSchemas == { << Col("balance_date", TRUE, FALSE),
                       Col("closing_balance", TRUE, TRUE),
                       Col("financial_institute", FALSE, TRUE) >>,
                    << Col("balance_date", TRUE, FALSE),
                       ColDefault("closing_balance", TRUE, TRUE, Num(0)),
                       Col("financial_institute", TRUE, FALSE) >> }

TxSchemas == { << Col("transaction_amount", TRUE, TRUE),
                  Col("debit_credit_indicator", TRUE, FALSE),
                  Col("description", TRUE, TRUE) >>,
               << Col("transaction_amount", TRUE, TRUE),
                  Col("debit_credit_indicator", TRUE, FALSE),
                  ColDefault("description", FALSE, TRUE, Str("")) >> }

\* get_schema_for_table(config, table_name): common columns, then the table's own
GetTableSchema(cfg, table_name) ==
    GetAttr(cfg, "common_fields_schema", <<>>)
    \o (IF table_name = "balance" THEN GetAttr(cfg, "balance_table_schema", <<>>)
        ELSE IF table_name = "transactions" THEN GetAttr(cfg, "transactions_table_schema", <<>>)
        ELSE <<>>)

\* _apply_default_values(row, schema)
RECURSIVE ApplyDefaultValues(_, _)
ApplyDefaultValues(row, schema) ==
    IF schema = <<>> THEN row
    ELSE LET col == Head(schema)
         IN  ApplyDefaultValues(
                 IF "default_value" \in DOMAIN col /\ RowGet(row, col.name) = None
                 THEN Put(row, col.name, col.default_value)
                 ELSE row,
                 Tail(schema))

\* ------------------------------------------------------------ transformer
\* _create_base_row(customer_id, account_header, group_date, table_type)
CreateBaseRow(cust, account_header, group_date, table_type) ==
    LET base_row == [EmptyRow EXCEPT
                        !["organisation_biz_id"] = Str(cust),
                        !["division_biz_id"] = Str(cust),
                        !["account_number"] = account_header.customer_account_number,
                        !["customer_id"] = Str(cust)]
    IN  IF table_type = "balance"
        THEN [base_row EXCEPT
                 !["balance_date"] = IsoFormat(group_date),
                 !["currency"] = PyOr(account_header.currency, Str(" ")),
                 !["bsb"] = Str(" "),
                 !["financial_institute"] = Str(""),
                 !["_target_table"] = Str(BALANCE_TABLE_ID)]
        ELSE IF table_type = "transactions"
        THEN [base_row EXCEPT
                 !["currency_code"] = PyOr(account_header.currency, Str(" ")),
                 !["_target_table"] = Str(TRANSACTIONS_TABLE_ID)]
        ELSE base_row

\* for summary in account.header.summary_items or []: ... (transformer.py 62-66)
RECURSIVE ApplySummaries(_, _, _)
ApplySummaries(row, summaries, cm) ==
    IF summaries = <<>> THEN row
    ELSE LET summary == Head(summaries)
             code == IF summary.type_code # None THEN Str(summary.type_code.code) ELSE None
             hit == /\ Truthy(code)
                    /\ InCodeMap(cm, code.v)
                    /\ CodeMapAt(cm, code.v).table = "balance"
         IN  ApplySummaries(
                 IF hit
                 THEN Put(row, CodeMapAt(cm, code.v).bq_column,
                          GetAttr(summary, CodeMapAt(cm, code.v).bai_field, None))
                 ELSE row,
                 Tail(summaries), cm)

\* The balance row of one account (transformer.py 60-67)
BalanceRow(cust, cfg, cm, group_date, account) ==
    ApplySummaries(
        ApplyDefaultValues(CreateBaseRow(cust, account.header, group_date, "balance"),
                           GetTableSchema(cfg, "balance")),
        account.header.summary_items,
        cm)

\* One pass of "for code, rule in code_map.items()" over a transaction row
\* (transformer.py 74-81)
TxRuleStep(row, rule, tx) ==
    IF rule.table # "transactions" THEN row
    ELSE LET value == GetAttr(tx, rule.bai_field, None)
         IN  IF value = None THEN row
             ELSE LET written == Put(row, rule.bq_column, value)
                  IN  IF rule.bq_column = "transaction_amount"
                      THEN Put(written, "debit_credit_indicator",
                               IF tx.type_code.transaction = "debit" THEN Str("D") ELSE Str("C"))
                      ELSE written

RECURSIVE ApplyTxRules(_, _, _)
ApplyTxRules(row, cm, tx) ==
    IF cm = <<>> THEN row
    ELSE ApplyTxRules(TxRuleStep(row, Head(cm), tx), Tail(cm), tx)

\* getattr(tx, name, group_date).isoformat() raises AttributeError on None
TxDateFails(tx) ==
    \/ GetAttr(tx, "posting_date", Date(15)) = None
    \/ GetAttr(tx, "value_date", Date(15)) = None

\* "Ensure required fields are present" (transformer.py 84-88)
TxDerived(row, tx, group_date) ==
    LET dated == [row EXCEPT
                    !["transaction_posting_date"] =
                        IsoFormat(GetAttr(tx, "posting_date", group_date)),
                    !["transaction_value_date"] =
                        IsoFormat(GetAttr(tx, "value_date", group_date))]
    IN  IF dated["transaction_amount"] \in {Absent, None}
        THEN [dated EXCEPT !["transaction_amount"] = Num(0),
                           !["debit_credit_indicator"] = Str("D")]
        ELSE dated

\* The row of one transaction (transformer.py 71-89)
TxRow(cust, cfg, cm, group_date, account, tx) ==
    TxDerived(
        ApplyTxRules(
            ApplyDefaultValues(CreateBaseRow(cust, account.header, group_date, "transactions"),
                               GetTableSchema(cfg, "transactions")),
            cm, tx),
        tx, group_date)

\* ------------------------------------------------------------ statement hierarchy
TypeCode(code, kind) == [code |-> code, transaction |-> kind]
TC475 == TypeCode("475", "debit")
TC175 == TypeCode("175", "credit")
TC015 == TypeCode("015", "misc")

Summary(tc, amount) == [type_code |-> tc, amount |-> amount]
SummarySet == { Summary(TC015, Num(100)), Summary(TC475, Num(5)), Summary(None, Num(100)) }

Tx(tc, amount) == [type_code |-> tc, amount |-> amount, text |-> Str("memo")]
\* Transactions without date attributes, and three that carry them.
TxSet == { Tx(tc, a) : tc \in {TC475, TC175}, a \in {None, Num(-5), Num(5)} }
         \cup { [type_code |-> TC475, amount |-> Num(5), text |-> Str("memo"),
                 posting_date |-> Date(16)],
                [type_code |-> TC175, amount |-> Num(5), text |-> Str("memo"),
                 posting_date |-> Date(16), value_date |-> Date(16)],
                [type_code |-> TC175, amount |-> Num(5), text |-> Str("memo"),
                 posting_date |-> None] }

AccountHeader(num, cur, sums) ==
    [customer_account_number |-> num, currency |-> cur, summary_items |-> sums]

SeqsUpTo(S, n) == UNION { [1..k -> S] : k \in 0..n }

\* The size of a statement is the number of its records: groups, accounts, summary
\* items and transactions.
AccountSize(a) == 1 + Len(a.header.summary_items) + Len(a.children)

RECURSIVE AccountsSize(_)
AccountsSize(accounts) ==
    IF accounts = <<>> THEN 0 ELSE AccountSize(Head(accounts)) + AccountsSize(Tail(accounts))

GroupSize(g) == 1 + AccountsSize(g.children)

\* The accounts of at most n records
AccountsWithin(headers, txs, n) ==
    UNION { { [header |-> AccountHeader(h[1], h[2], sums), children |-> ch] :
                h \in headers, sums \in [1..p[1] -> SummarySet], ch \in [1..p[2] -> txs] } :
            p \in { q \in (0..n) \X (0..n) : 1 + q[1] + q[2] <= n } }

\* The account lists of at most n records in all
RECURSIVE AccountSeqsWithin(_, _, _)
AccountSeqsWithin(headers, txs, n) ==
    {<<>>} \cup
    UNION { { <<a>> \o rest : rest \in AccountSeqsWithin(headers, txs, n - AccountSize(a)) } :
            a \in AccountsWithin(headers, txs, n) }

\* The groups of at most n records, with and without as_of_date
GroupsWithin(headers, txs, n) ==
    IF n < 1 THEN {}
    ELSE { [header |-> [as_of_date |-> d], children |-> ch] :
             d \in {None, Date(15)}, ch \in AccountSeqsWithin(headers, txs, n - 1) }

RECURSIVE GroupSeqsWithin(_, _, _)
GroupSeqsWithin(headers, txs, n) ==
    {<<>>} \cup
    UNION { { <<g>> \o rest : rest \in GroupSeqsWithin(headers, txs, n - GroupSize(g)) } :
            g \in GroupsWithin(headers, txs, n) }

\* The statements of at most n records
FilesWithin(headers, txs, n) ==
    { [children |-> gs] : gs \in GroupSeqsWithin(headers, txs, n) }

\* ------------------------------------------------------------ validator
\* {col["name"] for col in schema if col.get("required", False)}
RequiredFields(schema) ==
    { schema[i].name : i \in { j \in 1..Len(schema) : GetAttr(schema[j], "required", FALSE) } }

\* Variant: only None counts as missing, "" passes.
MissingFieldsNoneOnly(row, cfg) ==
    { f \in RequiredFields(GetTableSchema(cfg, row["_target_table"].v)) :
        RowGet(row, f) = None }

\* [f for f in required_fields if row.get(f) in (None, "")]
MissingFields(row, cfg) ==
    { f \in RequiredFields(GetTableSchema(cfg, row["_target_table"].v)) :
        RowGet(row, f) \in {None, Str("")} }

\* ------------------------------------------------------------ encryptor
\* get_all_sensitive_fields(config)
SensitiveIn(schema) ==
    { schema[i].name : i \in { j \in 1..Len(schema) : GetAttr(schema[j], "sensitive", FALSE) } }

GetAllSensitiveFields(cfg) ==
    SensitiveIn(GetAttr(cfg, "common_fields_schema", <<>>))
    \cup SensitiveIn(GetAttr(cfg, "balance_table_schema", <<>>))
    \cup SensitiveIn(GetAttr(cfg, "transactions_table_schema", <<>>))

\* "if field in row and row[field]": the fields encrypt_row hands to encrypt_value
FieldsToEncrypt(row, fields) == { f \in fields : row[f] # Absent /\ Truthy(row[f]) }

\* encrypt_value: the base64 text of the ciphertext of str(value) under the key
EncryptValue(key_name, value) == B64(key_name, PyStr(value))

\* encrypt_row, once the key is found: the copy without customer_id, its chosen
\* fields replaced
EncryptRow(row, fields, key_name) ==
    [c \in Columns |->
        IF c \in FieldsToEncrypt(row, fields) THEN EncryptValue(key_name, row[c])
        ELSE IF c = "customer_id" THEN Absent
        ELSE row[c]]

\* ------------------------------------------------------------ loader
\* row.pop("_target_table", BALANCE_TABLE)
TargetOf(row) ==
    IF row["_target_table"] = Absent THEN BALANCE_TABLE_ID ELSE row["_target_table"].v

\* the keys of "tables", in the order setdefault created them
RECURSIVE TableOrder(_, _)
TableOrder(rows, seen) ==
    IF rows = <<>> THEN seen
    ELSE TableOrder(Tail(rows),
                    IF \E i \in 1..Len(seen) : seen[i] = TargetOf(Head(rows))
                    THEN seen ELSE Append(seen, TargetOf(Head(rows))))

\* Variant: the rows of a table are handed over with the metadata key still on them.
TableRowsKeepKey(rows, table) == SelectSeq(rows, LAMBDA r : TargetOf(r) = table)

\* tables[table_name]: the rows of a table, the metadata key removed
RECURSIVE TableRows(_, _)
TableRows(rows, table) ==
    IF rows = <<>> THEN <<>>
    ELSE (IF TargetOf(Head(rows)) = table
          THEN << Put(Head(rows), "_target_table", Absent) >> ELSE <<>>)
         \o TableRows(Tail(rows), table)

\* ------------------------------------------------------------ state
VARIABLES
    pc,              \* position of the run
    config,          \* the loaded mapping configuration
    bank_id,         \* from the file name
    customer_id,     \* from the file name
    bai_file,        \* the parsed statement
    key_ring,        \* the customers that have a labelled key in the key ring
    bq,              \* per table: "ok", "missing" or "errors" (what the warehouse answers)
    code_map,        \* the code index of the selected rule set
    gi, ai, ti,      \* the group, account and transaction the walk is at
    all_rows,        \* the rows produced so far
    val_idx,         \* the row validate_rows is at
    encrypted_rows,  \* the rows encrypt_row has returned
    lookups,         \* per customer: the calls of find_key_for_customer
    load_idx,        \* the table load_rows_to_bq is at
    inserts,         \* the insert_rows_json calls issued
    error,           \* the exception raised
    exit_code        \* the exit status of run_cli, -1 while running

inputs == <<config, bank_id, customer_id, bai_file, key_ring, bq>>
walk == <<gi, ai, ti>>
later == <<val_idx, encrypted_rows, lookups, load_idx, inserts, exit_code>>
vars == <<pc, inputs, code_map, walk, all_rows, later, error>>

NoError == [kind |-> "none"]
CustomerIds == {"hemanth", "acme"}
Tables == {BALANCE_TABLE_ID, TRANSACTIONS_TABLE_ID}

CurGroup == bai_file.children[gi]
CurAccount == CurGroup.children[ai]
CurTx == CurAccount.children[ti]

\* ------------------------------------------------------------ mapping resolution
\* run_parser: select the rule set, refuse an empty one, index it by code
ResolveMappings ==
    /\ pc = "resolve"
    /\ LET mappings == SelectMappings(config, bank_id)
       IN  IF mappings = <<>>
           THEN /\ pc' = "failed"
                /\ error' = [kind |-> "NoMappings"]
                /\ UNCHANGED code_map
           ELSE /\ code_map' = CodeMap(mappings)
                /\ pc' = "group"
                /\ UNCHANGED error
    /\ UNCHANGED <<inputs, walk, all_rows, later>>

\* ------------------------------------------------------------ transform_bai_to_rows
\* for group in bai_file.children: a group without as_of_date is skipped
TransformGroup ==
    /\ pc = "group"
    /\ gi <= Len(bai_file.children)
    /\ \/ /\ ~Truthy(CurGroup.header.as_of_date)
          /\ gi' = gi + 1
          /\ UNCHANGED <<pc, ai>>
       \/ /\ Truthy(CurGroup.header.as_of_date)
          /\ pc' = "account"
          /\ ai' = 1
          /\ gi' = gi
    /\ UNCHANGED <<inputs, code_map, ti, all_rows, later, error>>

\* Variant: the balance row is appended inside the summary loop, once per item.
TransformAccountPerSummary ==
    /\ pc = "account"
    /\ ai <= Len(CurGroup.children)
    /\ all_rows' = all_rows \o
                   [k \in 1..Len(CurAccount.header.summary_items) |->
                       BalanceRow(customer_id, config, code_map,
                                  CurGroup.header.as_of_date, CurAccount)]
    /\ pc' = "tx"
    /\ ti' = 1
    /\ UNCHANGED <<inputs, code_map, gi, ai, later, error>>

\* Variant: the balance row is put in front of the rows built so far.
TransformAccountInFront ==
    /\ pc = "account"
    /\ ai <= Len(CurGroup.children)
    /\ all_rows' = << BalanceRow(customer_id, config, code_map,
                                 CurGroup.header.as_of_date, CurAccount) >> \o all_rows
    /\ pc' = "tx"
    /\ ti' = 1
    /\ UNCHANGED <<inputs, code_map, gi, ai, later, error>>

\* for account in group.children: the balance row
TransformAccount ==
    /\ pc = "account"
    /\ ai <= Len(CurGroup.children)
    /\ all_rows' = Append(all_rows,
                         BalanceRow(customer_id, config, code_map,
                                    CurGroup.header.as_of_date, CurAccount))
    /\ pc' = "tx"
    /\ ti' = 1
    /\ UNCHANGED <<inputs, code_map, gi, ai, later, error>>

\* Variant: one transaction row per applied rule, each holding that rule's field only.
RECURSIVE RowsPerRule(_, _, _, _)
RowsPerRule(cm, base, tx, group_date) ==
    IF cm = <<>> THEN <<>>
    ELSE (IF Head(cm).table = "transactions" /\ GetAttr(tx, Head(cm).bai_field, None) # None
          THEN << TxDerived(TxRuleStep(base, Head(cm), tx), tx, group_date) >>
          ELSE <<>>)
         \o RowsPerRule(Tail(cm), base, tx, group_date)

TransformTxPerRule ==
    /\ pc = "tx"
    /\ ti <= Len(CurAccount.children)
    /\ \/ /\ TxDateFails(CurTx)
          /\ pc' = "failed"
          /\ error' = [kind |-> "AttributeError"]
          /\ UNCHANGED <<ti, all_rows>>
       \/ /\ ~TxDateFails(CurTx)
          /\ all_rows' = all_rows \o
                RowsPerRule(code_map,
                            ApplyDefaultValues(
                                CreateBaseRow(customer_id, CurAccount.header,
                                              CurGroup.header.as_of_date, "transactions"),
                                GetTableSchema(config, "transactions")),
                            CurTx, CurGroup.header.as_of_date)
          /\ ti' = ti + 1
          /\ UNCHANGED <<pc, error>>
    /\ UNCHANGED <<inputs, code_map, gi, ai, later>>

\* for tx in account.children: the transaction row
TransformTx ==
    /\ pc = "tx"
    /\ ti <= Len(CurAccount.children)
    /\ \/ /\ TxDateFails(CurTx)
          /\ pc' = "failed"
          /\ error' = [kind |-> "AttributeError"]
          /\ UNCHANGED <<ti, all_rows>>
       \/ /\ ~TxDateFails(CurTx)
          /\ all_rows' = Append(all_rows,
                               TxRow(customer_id, config, code_map,
                                     CurGroup.header.as_of_date, CurAccount, CurTx))
          /\ ti' = ti + 1
          /\ UNCHANGED <<pc, error>>
    /\ UNCHANGED <<inputs, code_map, gi, ai, later>>

\* the transaction loop of an account is exhausted
AccountDone ==
    /\ pc = "tx"
    /\ ti > Len(CurAccount.children)
    /\ pc' = "account"
    /\ ai' = ai + 1
    /\ UNCHANGED <<inputs, code_map, gi, ti, all_rows, later, error>>

\* the account loop of a group is exhausted
GroupDone ==
    /\ pc = "account"
    /\ ai > Len(CurGroup.children)
    /\ pc' = "group"
    /\ gi' = gi + 1
    /\ UNCHANGED <<inputs, code_map, ai, ti, all_rows, later, error>>

\* return all_rows
TransformReturn ==
    /\ pc = "group"
    /\ gi > Len(bai_file.children)
    /\ pc' = "transformed"
    /\ UNCHANGED <<inputs, code_map, walk, all_rows, later, error>>

NextTransform ==
    \/ TransformGroup
    \/ TransformAccount
    \/ TransformTx
    \/ AccountDone
    \/ GroupDone
    \/ TransformReturn

\* ------------------------------------------------------------ run: validate, encrypt, load
\* "if not transformed_rows: ... return", else on to validation
RunAfterTransform ==
    /\ pc = "transformed"
    /\ IF all_rows = <<>>
       THEN pc' = "done" /\ exit_code' = 0
       ELSE pc' = "validate" /\ exit_code' = exit_code
    /\ UNCHANGED <<inputs, code_map, walk, all_rows, val_idx, encrypted_rows, lookups,
                   load_idx, inserts, error>>

\* Variant: a failing row is recorded and the loop goes on to the next row.
ValidateRowKeepGoing ==
    /\ pc = "validate"
    /\ val_idx <= Len(all_rows)
    /\ LET row == all_rows[val_idx]
       IN  IF MissingFields(row, config) # {}
           THEN error' = [kind |-> "Validation", row |-> val_idx - 1,
                          fields |-> MissingFields(row, config)]
           ELSE UNCHANGED error
    /\ val_idx' = val_idx + 1
    /\ UNCHANGED <<pc, inputs, code_map, walk, all_rows, encrypted_rows, lookups,
                   load_idx, inserts, exit_code>>

\* validate_rows: one pass of "for idx, row in enumerate(rows)"
ValidateRow ==
    /\ pc = "validate"
    /\ val_idx <= Len(all_rows)
    /\ LET row == all_rows[val_idx]
       IN  IF ~Truthy(RowGet(row, "_target_table"))
           THEN /\ pc' = "failed"
                /\ error' = [kind |-> "NoTargetTable", row |-> val_idx - 1]
                /\ UNCHANGED val_idx
           ELSE IF MissingFields(row, config) # {}
           THEN /\ pc' = "failed"
                /\ error' = [kind |-> "Validation", row |-> val_idx - 1,
                             fields |-> MissingFields(row, config)]
                /\ UNCHANGED val_idx
           ELSE /\ val_idx' = val_idx + 1
                /\ UNCHANGED <<pc, error>>
    /\ UNCHANGED <<inputs, code_map, walk, all_rows, encrypted_rows, lookups,
                   load_idx, inserts, exit_code>>

\* "All rows passed validation."
ValidateReturn ==
    /\ pc = "validate"
    /\ val_idx > Len(all_rows)
    /\ pc' = "encrypt"
    /\ UNCHANGED <<inputs, code_map, walk, all_rows, later, error>>

\* encrypt_row on the next row: every chosen field costs one find_key_for_customer
EncryptNextRow ==
    /\ pc = "encrypt"
    /\ Len(encrypted_rows) < Len(all_rows)
    /\ LET row == all_rows[Len(encrypted_rows) + 1]
           cust == RowGet(row, "customer_id")
           n == Cardinality(FieldsToEncrypt(row, GetAllSensitiveFields(config)))
       IN  IF ~Truthy(cust)
           THEN /\ pc' = "failed"
                /\ error' = [kind |-> "NoCustomerId"]
                /\ UNCHANGED <<encrypted_rows, lookups>>
           ELSE IF n > 0 /\ cust.v \notin key_ring
           THEN /\ pc' = "failed"
                /\ error' = [kind |-> "NoKey"]
                /\ lookups' = [lookups EXCEPT ![cust.v] = @ + 1]
                /\ UNCHANGED encrypted_rows
           ELSE /\ encrypted_rows' =
                       Append(encrypted_rows,
                              EncryptRow(row, GetAllSensitiveFields(config), cust.v))
                /\ lookups' = [lookups EXCEPT ![cust.v] = @ + n]
                /\ UNCHANGED <<pc, error>>
    /\ UNCHANGED <<inputs, code_map, walk, all_rows, val_idx, load_idx, inserts, exit_code>>

\* the list of encrypted rows is complete
EncryptReturn ==
    /\ pc = "encrypt"
    /\ Len(encrypted_rows) = Len(all_rows)
    /\ pc' = "load"
    /\ UNCHANGED <<inputs, code_map, walk, all_rows, later, error>>

\* load_rows_to_bq: one pass of "for table_name, table_rows in tables.items()"
LoadTable ==
    /\ pc = "load"
    /\ load_idx <= Len(TableOrder(encrypted_rows, <<>>))
    /\ LET table_name == TableOrder(encrypted_rows, <<>>)[load_idx]
           call == [table |-> table_name, rows |-> TableRows(encrypted_rows, table_name)]
       IN  IF bq[table_name] = "missing"
           THEN /\ pc' = "failed"
                /\ error' = [kind |-> "TableNotFound", table |-> table_name]
                /\ UNCHANGED <<inserts, load_idx>>
           ELSE IF bq[table_name] = "errors"
           THEN /\ inserts' = Append(inserts, call)
                /\ pc' = "failed"
                /\ error' = [kind |-> "LoadFailed", table |-> table_name]
                /\ UNCHANGED load_idx
           ELSE /\ inserts' = Append(inserts, call)
                /\ load_idx' = load_idx + 1
                /\ UNCHANGED <<pc, error>>
    /\ UNCHANGED <<inputs, code_map, walk, all_rows, val_idx, encrypted_rows, lookups,
                   exit_code>>

\* "--- BAI2 processing pipeline completed successfully. ---"
LoadReturn ==
    /\ pc = "load"
    /\ load_idx > Len(TableOrder(encrypted_rows, <<>>))
    /\ pc' = "done"
    /\ exit_code' = 0
    /\ UNCHANGED <<inputs, code_map, walk, all_rows, val_idx, encrypted_rows, lookups,
                   load_idx, inserts, error>>

\* run logs and re-raises; run_cli turns the exception into exit status 1
RunCliExit ==
    /\ pc = "failed"
    /\ pc' = "exited"
    /\ exit_code' = 1
    /\ UNCHANGED <<inputs, code_map, walk, all_rows, val_idx, encrypted_rows, lookups,
                   load_idx, inserts, error>>

Next ==
    \/ ResolveMappings
    \/ NextTransform
    \/ RunAfterTransform
    \/ ValidateRow
    \/ ValidateReturn
    \/ EncryptNextRow
    \/ EncryptReturn
    \/ LoadTable
    \/ LoadReturn
    \/ RunCliExit

\* ------------------------------------------------------------ configurations
ConfigOver(banks, bal, txs) ==
    [mappings |-> banks,
     common_fields_schema |-> CommonSchema,
     balance_table_schema |-> bal,
     transactions_table_schema |-> txs]

\* The two schema pairs: without and with default values.
SchemaPairs ==
    { bt \in BalanceSchemas \X TxSchemas :
        ("default_value" \in DOMAIN bt[1][2]) = ("default_value" \in DOMAIN bt[2][3]) }

TransformConfigs ==
    { ConfigOver(<< [bank_id |-> "CITI", mappings |-> rules] >>, bt[1], bt[2]) :
        rules \in RuleLists, bt \in SchemaPairs }

\* Nothing has run yet.
Fresh ==
    /\ gi = 1 /\ ai = 1 /\ ti = 1
    /\ all_rows = <<>>
    /\ val_idx = 1
    /\ encrypted_rows = <<>>
    /\ lookups = [c \in CustomerIds |-> 0]
    /\ load_idx = 1
    /\ inserts = <<>>
    /\ error = NoError
    /\ exit_code = -1

\* transform_bai_to_rows called on a parsed statement with a resolved code index
InitTransform ==
    /\ config \in TransformConfigs
    /\ bank_id = "CITI"
    /\ customer_id = "hemanth"
    /\ bai_file \in FilesWithin({<<Str("001234"), Str("USD")>>}, TxSet, MaxRecords)
    /\ key_ring = {"hemanth"}
    /\ bq = [t \in Tables |-> "ok"]
    /\ code_map = CodeMap(SelectMappings(config, bank_id))
    /\ pc = "group"
    /\ Fresh

SpecTransform == InitTransform /\ [][NextTransform]_vars

\* A statement of one dated group, one account, one transaction.
OneTxFile ==
    [children |-> << [header |-> [as_of_date |-> Date(15)],
                      children |-> << [header |-> AccountHeader(Str("001234"), Str("USD"), <<>>),
                                       children |-> << Tx(TC475, Num(5)) >>] >>] >>]

\* Bank entries with or without a "mappings" key; configurations with or without a
\* "bank_id_default_typecodes" key.
BankEntries ==
    { [bank_id |-> b, mappings |-> r] : b \in {"CITI", "ANZ"}, r \in RuleLists }
    \cup { [bank_id |-> b] : b \in {"CITI", "ANZ"} }

ResolveConfigs ==
    LET pair == CHOOSE bt \in SchemaPairs : "default_value" \notin DOMAIN bt[1][2]
        base(banks) == ConfigOver(banks, pair[1], pair[2])
    IN  { base(banks) : banks \in SeqsUpTo(BankEntries, MaxBanks) }
        \cup { [f \in DOMAIN base(banks) \cup {"bank_id_default_typecodes"} |->
                   IF f = "bank_id_default_typecodes" THEN r ELSE base(banks)[f]] :
                 banks \in SeqsUpTo(BankEntries, MaxBanks), r \in RuleLists }

\* Mapping resolution for any configuration, followed by the transformation
InitResolve ==
    /\ config \in ResolveConfigs
    /\ bank_id \in {"CITI", "XYZ"}
    /\ customer_id = "hemanth"
    /\ bai_file = OneTxFile
    /\ key_ring = {"hemanth"}
    /\ bq = [t \in Tables |-> "ok"]
    /\ code_map = <<>>
    /\ pc = "resolve"
    /\ Fresh

NextResolve == ResolveMappings \/ NextTransform

SpecResolve == InitResolve /\ [][NextResolve]_vars

\* The whole run, from a loaded configuration and a parsed statement
PipelineRuleLists == { <<>>, <<RAmount>>, <<RBalance, RAmount, RText>> }

PipelineConfigs ==
    { ConfigOver(<< [bank_id |-> "CITI", mappings |-> rules] >>, bt[1], bt[2]) :
        rules \in PipelineRuleLists, bt \in SchemaPairs }

PipelineTxSet == { Tx(TC475, Num(5)), Tx(TC175, None) }

PipelineHeaders == { <<Str("001234"), Str("USD")>>, <<Str(""), None>> }

\* What the warehouse answers for (balance, transactions)
BqAnswers ==
    { [t \in Tables |-> IF t = BALANCE_TABLE_ID THEN a[1] ELSE a[2]] :
        a \in { <<"ok", "ok">>, <<"ok", "missing">>, <<"ok", "errors">>,
                <<"errors", "ok">>, <<"missing", "ok">> } }

\* The key ring and the warehouse of a run: every warehouse answer with the customer's
\* key on the ring, and a ring without that key in front of a healthy warehouse.
Environments ==
    { <<{"hemanth", "acme"}, a>> : a \in BqAnswers } \cup
    { <<{"acme"}, a>> : a \in { b \in BqAnswers : \A t \in Tables : b[t] = "ok" } }

Init ==
    /\ config \in PipelineConfigs
    /\ bank_id = "CITI"
    /\ customer_id = "hemanth"
    /\ bai_file \in FilesWithin(PipelineHeaders, PipelineTxSet, MaxPipelineRecords)
    /\ \E env \in Environments : key_ring = env[1] /\ bq = env[2]
    /\ code_map = <<>>
    /\ pc = "resolve"
    /\ Fresh

Spec == Init /\ [][Next]_vars

\* ------------------------------------------------------------ what the statement holds
RECURSIVE CountAccounts(_)
CountAccounts(groups) ==
    IF groups = <<>> THEN 0
    ELSE (IF Truthy(Head(groups).header.as_of_date) THEN Len(Head(groups).children) ELSE 0)
         + CountAccounts(Tail(groups))

RECURSIVE CountTxOfAccounts(_)
CountTxOfAccounts(accounts) ==
    IF accounts = <<>> THEN 0
    ELSE Len(Head(accounts).children) + CountTxOfAccounts(Tail(accounts))

RECURSIVE CountTx(_)
CountTx(groups) ==
    IF groups = <<>> THEN 0
    ELSE (IF Truthy(Head(groups).header.as_of_date)
          THEN CountTxOfAccounts(Head(groups).children) ELSE 0)
         + CountTx(Tail(groups))

RowsOf(rows, table) == { i \in 1..Len(rows) : rows[i]["_target_table"] = Str(table) }

\* The summary items of an account that satisfy a balance rule of the code index
MatchingSummaries(account) ==
    { k \in 1..Len(account.header.summary_items) :
        LET tc == account.header.summary_items[k].type_code
        IN  /\ tc # None
            /\ InCodeMap(code_map, tc.code)
            /\ CodeMapAt(code_map, tc.code).table = "balance" }

\* The rules of the code index that the transformer applies to a transaction
AppliedRules(tx) ==
    { k \in 1..Len(code_map) :
        /\ code_map[k].table = "transactions"
        /\ GetAttr(tx, code_map[k].bai_field, None) # None }

\* The walk has just appended the row of transaction ti - 1 of the current account.
JustBuiltTx == pc = "tx" /\ ti > 1
BuiltTx == CurAccount.children[ti - 1]
BuiltRow == all_rows[Len(all_rows)]

\* ------------------------------------------------------------ claims
\* C1: on return, all_rows holds exactly one balance row for every account of every
\* group that has an as_of_date, whatever the number of the account's summary items
\* that match a balance rule.
C1_OneBalanceRowPerAccount ==
    pc = "transformed" =>
        Cardinality(RowsOf(all_rows, BALANCE_TABLE_ID)) = CountAccounts(bai_file.children)

\* An account with two summary items that both match a balance rule was walked,
\* and one balance row came out for it.
C1_Witness ==
    /\ pc = "transformed"
    /\ Len(bai_file.children) = 1
    /\ Truthy(bai_file.children[1].header.as_of_date)
    /\ \E a \in 1..Len(bai_file.children[1].children) :
           Cardinality(MatchingSummaries(bai_file.children[1].children[a])) = 2
    /\ Cardinality(RowsOf(all_rows, BALANCE_TABLE_ID)) = Len(bai_file.children[1].children)

\* C2: on return, all_rows holds exactly one transaction row for every transaction of
\* every processed account, and the row just built carries the field of every rule
\* that was applied to its transaction.
C2_OneRowPerTransaction ==
    /\ pc = "transformed" =>
           Cardinality(RowsOf(all_rows, TRANSACTIONS_TABLE_ID)) = CountTx(bai_file.children)
    /\ JustBuiltTx =>
           /\ BuiltRow["_target_table"] = Str(TRANSACTIONS_TABLE_ID)
           /\ \A k \in AppliedRules(BuiltTx) :
                  (\A j \in AppliedRules(BuiltTx) :
                      j > k => code_map[j].bq_column # code_map[k].bq_column)
                  => BuiltRow[code_map[k].bq_column]
                         = GetAttr(BuiltTx, code_map[k].bai_field, None)

\* A transaction to which two rules applied produced one row holding both fields.
C2_Witness ==
    /\ JustBuiltTx
    /\ Cardinality(AppliedRules(BuiltTx)) = 2
    /\ BuiltRow["transaction_amount"] = Num(5)
    /\ BuiltRow["description"] = Str("memo")
    /\ Cardinality(RowsOf(all_rows, TRANSACTIONS_TABLE_ID)) = 1

\* Some rule of the code index wrote transaction_amount from the transaction.
AmountPopulated(tx) ==
    \E k \in AppliedRules(tx) : code_map[k].bq_column = "transaction_amount"

IsNegative(v) == v.t = "int" /\ v.v < 0

\* C3 (as claimed): debit_credit_indicator is "D" iff the row's transaction_amount is
\* negative or no rule populated an amount; otherwise it is "C".
C3_IndicatorFollowsAmountSign ==
    JustBuiltTx =>
        LET d == \/ IsNegative(BuiltRow["transaction_amount"])
                 \/ ~AmountPopulated(BuiltTx)
        IN  BuiltRow["debit_credit_indicator"] = (IF d THEN Str("D") ELSE Str("C"))

\* C7 (as claimed): the transformation never returns a row list for a statement that
\* holds a group without as_of_date.
C7_MissingDateIsFatal ==
    pc = "transformed" =>
        \A g \in 1..Len(bai_file.children) : Truthy(bai_file.children[g].header.as_of_date)

\* The transaction row with no rule applied: identity fields, defaults, derived fields.
UnmappedTxRow ==
    TxDerived(
        ApplyDefaultValues(
            CreateBaseRow(customer_id, CurAccount.header, CurGroup.header.as_of_date,
                          "transactions"),
            GetTableSchema(config, "transactions")),
        BuiltTx, CurGroup.header.as_of_date)

\* C10 (as claimed): a transactions rule whose source_code differs from the
\* transaction's type code leaves the row unchanged (here: in the column it targets,
\* when no rule with the transaction's own code targets that column too).
C10_OnlyMatchingCodeWrites ==
    JustBuiltTx =>
        \A k \in 1..Len(code_map) :
            ( /\ code_map[k].table = "transactions"
              /\ code_map[k].bai_code # BuiltTx.type_code.code
              /\ \A j \in 1..Len(code_map) :
                    code_map[j].bai_code = BuiltTx.type_code.code
                    => code_map[j].bq_column # code_map[k].bq_column )
            => BuiltRow[code_map[k].bq_column] = UnmappedTxRow[code_map[k].bq_column]

\* ------------------------------------------------------------ claims on mapping resolution
Banks == GetAttr(config, "mappings", <<>>)
HasBankEntry == \E i \in 1..Len(Banks) : Banks[i].bank_id = bank_id
BankRules ==
    LET first == CHOOSE i \in 1..Len(Banks) :
                    /\ Banks[i].bank_id = bank_id
                    /\ \A j \in 1..(i - 1) : Banks[j].bank_id # bank_id
    IN  IF "mappings" \in DOMAIN Banks[first] THEN Banks[first].mappings ELSE <<>>
DefaultRules ==
    IF "bank_id_default_typecodes" \in DOMAIN config
    THEN config.bank_id_default_typecodes ELSE <<>>

Resolved == pc # "resolve"
ResolveFailed == error = [kind |-> "NoMappings"]

\* The code index holds, for every source_code of the rule list, the rule declared last.
IndexesLastDeclared(rules) ==
    /\ \A k \in 1..Len(rules) :
          /\ InCodeMap(code_map, rules[k].bai_code)
          /\ (\A j \in (k + 1)..Len(rules) : rules[j].bai_code # rules[k].bai_code)
             => CodeMapAt(code_map, rules[k].bai_code) = rules[k]
    /\ \A i \in 1..Len(code_map) : \E k \in 1..Len(rules) : rules[k] = code_map[i]

\* C8 (as claimed): resolution fails iff both the bank's own rule set and the default
\* rule set are absent or empty; otherwise it indexes the bank's own set when there is
\* one and the default set when there is none; it fails before any row is built.
C8_FailsIffBothEmpty ==
    Resolved =>
        LET own == IF HasBankEntry THEN BankRules ELSE <<>>
        IN  /\ ResolveFailed <=> (own = <<>> /\ DefaultRules = <<>>)
            /\ ResolveFailed => all_rows = <<>>
            /\ ~ResolveFailed =>
                  IndexesLastDeclared(IF HasBankEntry THEN BankRules ELSE DefaultRules)

\* C8 (amended): resolution selects the bank's own rule list when the configuration
\* has an entry for the bank, else the default list, and fails iff the selected list
\* is absent or empty (an empty own list is not replaced by the default list); it
\* fails before any row is built; the index keeps the later rule of a shared code.
C8_FailsIffSelectedEmpty ==
    Resolved =>
        LET selected == IF HasBankEntry THEN BankRules ELSE DefaultRules
        IN  /\ ResolveFailed <=> selected = <<>>
            /\ ResolveFailed => all_rows = <<>>
            /\ ~ResolveFailed => IndexesLastDeclared(selected)

\* The bank has an entry with no rules, the default list has rules, and resolution failed.
C8_Witness ==
    /\ pc = "failed"
    /\ ResolveFailed
    /\ HasBankEntry
    /\ BankRules = <<>>
    /\ DefaultRules # <<>>

\* ------------------------------------------------------------ claims on the run
SchemaSection(table) ==
    IF table = BALANCE_TABLE_ID THEN config.balance_table_schema
    ELSE config.transactions_table_schema

\* The required columns of a row's destination table for which the row has no value,
\* None or "".
Lacking(row) ==
    LET table == row["_target_table"].v
        cols == { config.common_fields_schema[i] :
                    i \in 1..Len(config.common_fields_schema) }
                \cup { SchemaSection(table)[i] : i \in 1..Len(SchemaSection(table)) }
    IN  { c.name : c \in { x \in cols : x.required /\ row[x.name] \in {Absent, None, Str("")} } }

\* C4: validate_rows raises iff some row lacks a non-empty value for a required
\* column of its table; the error names the position of the first such row and all of
\* its lacking columns, and no later row is examined.
C4_ValidationFailsFast ==
    /\ error.kind # "NoTargetTable"
    /\ pc = "validate" => \A j \in 1..(val_idx - 1) : Lacking(all_rows[j]) = {}
    /\ (pc \in {"encrypt", "load"} \/ encrypted_rows # <<>>) =>
           \A j \in 1..Len(all_rows) : Lacking(all_rows[j]) = {}
    /\ error.kind = "Validation" =>
           /\ error.row + 1 \in 1..Len(all_rows)
           /\ error.fields = Lacking(all_rows[error.row + 1])
           /\ error.fields # {}
           /\ \A j \in 1..error.row : Lacking(all_rows[j]) = {}
           /\ val_idx = error.row + 1

\* Validation raised on the second row or later, naming two lacking columns, with a
\* further row left unexamined.
C4_Witness ==
    /\ error.kind = "Validation"
    /\ error.row >= 1
    /\ Cardinality(error.fields) >= 2
    /\ Len(all_rows) > error.row + 1

\* C5 (as claimed): in every row encrypt_row returned, every sensitive column is null,
\* absent or the base64 ciphertext of the original value, and customer_id is absent.
C5_NoSensitivePlaintext ==
    \A i \in 1..Len(encrypted_rows) :
        /\ encrypted_rows[i]["customer_id"] = Absent
        /\ \A f \in GetAllSensitiveFields(config) :
              \/ encrypted_rows[i][f] \in {None, Absent}
              \/ encrypted_rows[i][f] = B64(customer_id, PyStr(all_rows[i][f]))

\* C6 (as claimed): within one run the key ring is enumerated at most once per customer.
C6_OneLookupPerCustomer ==
    \A c \in CustomerIds : lookups[c] <= 1

\* C9: the stages run in the order transform, validate, encrypt, load; a validation
\* error leaves no row encrypted and no insert issued, an encryption error leaves no
\* insert issued, and a run that raised ends with exit status 1, never in success.
C9_FatalErrorAborts ==
    /\ val_idx > 1 => pc \notin {"resolve", "group", "account", "tx", "transformed"}
    /\ (encrypted_rows # <<>> \/ lookups # [c \in CustomerIds |-> 0]) =>
           val_idx = Len(all_rows) + 1
    /\ inserts # <<>> =>
           /\ val_idx = Len(all_rows) + 1
           /\ Len(encrypted_rows) = Len(all_rows)
    /\ error.kind \in {"Validation", "NoTargetTable"} =>
           /\ encrypted_rows = <<>>
           /\ lookups = [c \in CustomerIds |-> 0]
           /\ inserts = <<>>
    /\ error.kind \in {"NoKey", "NoCustomerId"} => inserts = <<>>
    /\ error # NoError => pc \in {"failed", "exited"} /\ exit_code # 0
    /\ pc = "exited" => exit_code = 1 /\ error # NoError
    /\ exit_code = 0 => pc = "done" /\ error = NoError

\* Rows passed validation, the key lookup failed, and the run exited with status 1
\* without an insert.
C9_Witness ==
    /\ pc = "exited"
    /\ error.kind = "NoKey"
    /\ Len(all_rows) >= 2
    /\ val_idx = Len(all_rows) + 1
    /\ inserts = <<>>
    /\ exit_code = 1

\* ------------------------------------------------------------ claims on dates, order, loading
\* C11 (as claimed): every transaction row carries the transaction's own posting and
\* value date when it has one and the group's statement date when the field is missing
\* or null, and the transformation does not fail on a transaction lacking either date.
C11_DatesFallBackToGroupDate ==
    LET OwnDateOr(name) ==
            IF GetAttr(BuiltTx, name, None) = None
            THEN CurGroup.header.as_of_date
            ELSE GetAttr(BuiltTx, name, None)
    IN  /\ JustBuiltTx =>
               /\ BuiltRow["transaction_posting_date"] = IsoFormat(OwnDateOr("posting_date"))
               /\ BuiltRow["transaction_value_date"] = IsoFormat(OwnDateOr("value_date"))
        /\ error.kind # "AttributeError"

\* The rows of the statement in hierarchy traversal order: for every account of every
\* dated group, its balance row, then the rows of its transactions.
TxRowsInOrder(group_date, account) ==
    [t \in 1..Len(account.children) |->
        TxRow(customer_id, config, code_map, group_date, account, account.children[t])]

RECURSIVE AccountRowsInOrder(_, _)
AccountRowsInOrder(group_date, accounts) ==
    IF accounts = <<>> THEN <<>>
    ELSE << BalanceRow(customer_id, config, code_map, group_date, Head(accounts)) >>
         \o TxRowsInOrder(group_date, Head(accounts))
         \o AccountRowsInOrder(group_date, Tail(accounts))

RECURSIVE GroupRowsInOrder(_)
GroupRowsInOrder(groups) ==
    IF groups = <<>> THEN <<>>
    ELSE (IF Truthy(Head(groups).header.as_of_date)
          THEN AccountRowsInOrder(Head(groups).header.as_of_date, Head(groups).children)
          ELSE <<>>)
         \o GroupRowsInOrder(Tail(groups))

C13_EveryRowLoadedOnce ==
    LET Targeting(t) ==
            { i \in 1..Len(encrypted_rows) : encrypted_rows[i]["_target_table"] = Str(t) }
        Nth(t, k) ==
            CHOOSE i \in Targeting(t) : Cardinality({ j \in Targeting(t) : j < i }) = k - 1
        Loaded == { inserts[c].table : c \in 1..Len(inserts) }
    IN  /\ \A c \in 1..Len(inserts) :
               /\ Len(inserts[c].rows) = Cardinality(Targeting(inserts[c].table))
               /\ Len(inserts[c].rows) > 0
               /\ \A k \in 1..Len(inserts[c].rows) :
                      /\ inserts[c].rows[k]["_target_table"] = Absent
                      /\ inserts[c].rows[k] =
                             [encrypted_rows[Nth(inserts[c].table, k)]
                                 EXCEPT !["_target_table"] = Absent]
               /\ \A d \in 1..Len(inserts) : d # c => inserts[d].table # inserts[c].table
        /\ pc = "done" =>
               /\ \A i \in 1..Len(encrypted_rows) :
                      \E c \in 1..Len(inserts) :
                          encrypted_rows[i]["_target_table"] = Str(inserts[c].table)
               /\ \A t \in Loaded : bq[t] = "ok"
        /\ error.kind \in {"TableNotFound", "LoadFailed"} =>
               /\ pc \in {"failed", "exited"}
               /\ bq[error.table] = (IF error.kind = "TableNotFound" THEN "missing" ELSE "errors")
               /\ Loaded = { t \in Tables : /\ Targeting(t) # {}
                                            /\ Nth(t, 1) < Nth(error.table, 1) }
                           \cup (IF error.kind = "LoadFailed" THEN {error.table} ELSE {})
               /\ \A t \in Loaded \ {error.table} : bq[t] = "ok"

\* The balance batch was loaded, the transactions batch of two rows was handed over and
\* came back with row errors, and the run ended with the balance batch still loaded.
C13_Witness ==
    /\ pc = "exited"
    /\ error = [kind |-> "LoadFailed", table |-> TRANSACTIONS_TABLE_ID]
    /\ Len(encrypted_rows) = 3
    /\ Len(inserts) = 2
    /\ inserts[1].table = BALANCE_TABLE_ID
    /\ Len(inserts[1].rows) = 1
    /\ inserts[2].table = TRANSACTIONS_TABLE_ID
    /\ Len(inserts[2].rows) = 2
    /\ inserts[2].rows[1] # inserts[2].rows[2]

====
